---- MODULE Spec2Model ----
(***************************************************************************)
(* Model of src/hello_world/src/predict.rs: batched character-level        *)
(* next-token prediction (parse_args, load_vocab, load_test_input,         *)
(* embed_strings, run_prediction, write_predictions, main).                *)
(*                                                                         *)
(* Strings are sequences of one-character strings, so that push_str is     *)
(* sequence concatenation and "" is the empty sequence.  Rust indices are  *)
(* 0-based; a Rust access v[k] is written v[k + 1] here.                   *)
(***************************************************************************)
EXTENDS Integers, Sequences, FiniteSets, TLC

VARIABLES
    pc,            \* position of main
    outcome,       \* "running", "Ok", "Err" or "panic": how main ended
    argv,          \* the process arguments (env::args), program name first
    args, i,       \* locals of parse_args
    work_dir, test_data, test_output, time, torchscript,   \* struct Args
    vocab_file,    \* the vocabulary file as found on disk
    vocab, index_to_char, pad_token,
    model,         \* the loaded CModule
    input_file,    \* the test input file as found on disk
    test_input,    \* Result<Vec<String>> of load_test_input
    inputs,        \* run_prediction/embed_strings: the batch
    encoded,       \* embed_strings: the flat buffer
    logits, logits_masked, indices_vec, results,  \* locals of run_prediction
    predictions,   \* main: Vec<String> returned by run_prediction
    out_file       \* the output file on disk

vars == <<pc, outcome, argv, args, i, work_dir, test_data, test_output, time,
          torchscript, vocab_file, vocab, index_to_char, pad_token, model,
          input_file, test_input, inputs, encoded, logits,
          logits_masked, indices_vec, results, predictions, out_file>>

argVars   == <<args, i, work_dir, test_data, test_output, time, torchscript>>
vocabVars == <<vocab_file, vocab, index_to_char, pad_token>>
dataVars  == <<input_file, test_input>>
predVars  == <<inputs, encoded, logits, logits_masked, indices_vec, results>>

(***************************************************************************)
(* Constants of the program                                                *)
(***************************************************************************)
DEFAULT_WORK_DIR    == "work"
DEFAULT_TEST_DATA   == "test/input.txt"
DEFAULT_TEST_OUTPUT == "pred.txt"
CONTEXT_LENGTH      == 32
TopK                == 3

(***************************************************************************)
(* Bounds of the model                                                     *)
(***************************************************************************)
MaxArgs    == 3    \* arguments after the program name
MaxIdx     == 3    \* greatest index a vocabulary file may hold
ShortLen   == 2    \* lines have 0..ShortLen or 31..MaxLineLen characters
MaxLineLen == 33
MaxBatch   == 2    \* lines per input file
MaxScore   == 1    \* finite scores are 0..MaxScore
MaxClasses == 4    \* output classes of a model

Min(a, b) == IF a < b THEN a ELSE b

RECURSIVE SeqsUpTo(_, _)
SeqsUpTo(S, n) ==
    IF n = 0 THEN {<<>>}
    ELSE LET shorter == SeqsUpTo(S, n - 1)
         IN  shorter \cup {Append(s, x) : s \in {t \in shorter : Len(t) = n - 1}, x \in S}

(***************************************************************************)
(* parse_args                                                              *)
(***************************************************************************)
ValueFlags == {"--work_dir", "--test_data", "--test_output"}
ArgTokens  == ValueFlags \cup {"--time", "--torchscript", "x"}
ArgLists   == {<<"predict">> \o a : a \in SeqsUpTo(ArgTokens, MaxArgs)}

\* The state every run of main starts in, before the environment is fixed.
Blank ==
    /\ outcome = "running"
    /\ args = <<>>
    /\ i = 0
    /\ work_dir = DEFAULT_WORK_DIR
    /\ test_data = DEFAULT_TEST_DATA
    /\ test_output = DEFAULT_TEST_OUTPUT
    /\ time = FALSE
    /\ torchscript = FALSE
    /\ vocab_file = [status |-> "unread", map |-> <<>>]
    /\ vocab = <<>>
    /\ index_to_char = <<>>
    /\ pad_token = 0
    /\ model = [status |-> "unloaded", classes |-> 0, w |-> <<>>]
    /\ input_file = [status |-> "unread", lines |-> <<>>]
    /\ test_input = [ok |-> FALSE, lines |-> <<>>]
    /\ inputs = <<>>
    /\ encoded = <<>>
    /\ logits = <<>>
    /\ logits_masked = <<>>
    /\ indices_vec = <<>>
    /\ results = <<>>
    /\ predictions = <<>>

\* let args: Vec<String> = env::args().collect(); ... let mut i = 1;
ParseBegin ==
    /\ pc = "parse_args"
    /\ args' = argv
    /\ i' = 1
    /\ pc' = "parse_loop"
    /\ UNCHANGED <<outcome, argv, work_dir, test_data, test_output, time,
                   torchscript, vocabVars, model, dataVars, predVars,
                   predictions, out_file>>

\* ParseArm with a value flag advancing by one only (mutant).
ParseArm_single(a, k, cur) ==
    LET arg == a[k + 1]
        hasNext == k + 1 < Len(a)
    IN  CASE arg = "--work_dir" ->
               IF hasNext THEN [cur EXCEPT !.work_dir = a[k + 2], !.i = k + 1]
                          ELSE [cur EXCEPT !.i = k + 1]
          [] arg = "--test_data" ->
               IF hasNext THEN [cur EXCEPT !.test_data = a[k + 2], !.i = k + 1]
                          ELSE [cur EXCEPT !.i = k + 1]
          [] arg = "--test_output" ->
               IF hasNext THEN [cur EXCEPT !.test_output = a[k + 2], !.i = k + 1]
                          ELSE [cur EXCEPT !.i = k + 1]
          [] arg = "--time" -> [cur EXCEPT !.time = TRUE, !.i = k + 1]
          [] arg = "--torchscript" -> [cur EXCEPT !.torchscript = TRUE, !.i = k + 1]
          [] OTHER -> [cur EXCEPT !.i = k + 1]

\* The mutable settings after one iteration of the while loop at index k.
ParseArm(a, k, cur) ==
    LET arg == a[k + 1]
        hasNext == k + 1 < Len(a)
    IN  CASE arg = "--work_dir" ->
               IF hasNext THEN [cur EXCEPT !.work_dir = a[k + 2], !.i = k + 2]
                          ELSE [cur EXCEPT !.i = k + 1]
          [] arg = "--test_data" ->
               IF hasNext THEN [cur EXCEPT !.test_data = a[k + 2], !.i = k + 2]
                          ELSE [cur EXCEPT !.i = k + 1]
          [] arg = "--test_output" ->
               IF hasNext THEN [cur EXCEPT !.test_output = a[k + 2], !.i = k + 2]
                          ELSE [cur EXCEPT !.i = k + 1]
          [] arg = "--time" -> [cur EXCEPT !.time = TRUE, !.i = k + 1]
          [] arg = "--torchscript" -> [cur EXCEPT !.torchscript = TRUE, !.i = k + 1]
          [] OTHER -> [cur EXCEPT !.i = k + 1]

\* One iteration of  while i < args.len() { match args[i].as_str() ... }
ParseStep ==
    /\ pc = "parse_loop"
    /\ i < Len(args)
    /\ LET nxt == ParseArm(args, i,
                    [work_dir |-> work_dir, test_data |-> test_data,
                     test_output |-> test_output, time |-> time,
                     torchscript |-> torchscript, i |-> i])
       IN  /\ work_dir' = nxt.work_dir
           /\ test_data' = nxt.test_data
           /\ test_output' = nxt.test_output
           /\ time' = nxt.time
           /\ torchscript' = nxt.torchscript
           /\ i' = nxt.i
    /\ UNCHANGED <<pc, outcome, argv, args, vocabVars, model, dataVars,
                   predVars, predictions, out_file>>

\* Loop exit: Args { work_dir, ... } is returned, the locals are dropped.
ParseReturn ==
    /\ pc = "parse_loop"
    /\ ~(i < Len(args))
    /\ args' = <<>>
    /\ i' = 0
    /\ pc' = "load_vocab"
    /\ UNCHANGED <<outcome, argv, work_dir, test_data, test_output, time,
                   torchscript, vocabVars, model, dataVars, predVars,
                   predictions, out_file>>

InitArgs ==
    /\ Blank
    /\ pc = "parse_args"
    /\ argv \in ArgLists
    /\ out_file = [exists |-> FALSE, lines |-> <<>>]

NextArgs == ParseBegin \/ ParseStep \/ ParseReturn

\* parse_args is sequential code: an enabled step is eventually taken.
SpecArgs == InitArgs /\ [][NextArgs]_vars /\ WF_vars(NextArgs)

(***************************************************************************)
(* load_vocab, and main's lookup of the pad token                          *)
(***************************************************************************)
VocabChars == {" ", "a", "b"}
\* -1 stands for the negative indices an i64 may hold
VocabIdx   == (-1)..MaxIdx

\* All functions from a subset of D to R.
PartialMaps(D, R) == UNION {[S -> R] : S \in SUBSET D}

\* A vocabulary file: absent, not a JSON object of integers, or such a map.
VocabFiles ==
    {[status |-> "missing", map |-> <<>>], [status |-> "garbage", map |-> <<>>]}
    \cup {[status |-> "map", map |-> m] : m \in PartialMaps(VocabChars, VocabIdx)}

\* index_to_char[idx as usize] = c.clone()  is in range (a negative idx
\* becomes a huge usize).
InRange(idx, len) == 0 <= idx /\ idx < len

\* The tables  vec!["".to_string(); len]  can become when the entries of
\* vocab_map are written in the HashMap's iteration order: a slot holds the
\* last character written to it, an untouched slot stays "".
IndexTables(m) ==
    LET len == Cardinality(DOMAIN m)
        Slot(k) == {c \in DOMAIN m : m[c] = k - 1}
    IN  {t \in [1..len -> {<<>>} \cup {<<c>> : c \in DOMAIN m}] :
            \A k \in 1..len :
                IF Slot(k) = {} THEN t[k] = <<>>
                ELSE \E c \in Slot(k) : t[k] = <<c>>}

\* let (vocab, index_to_char) = load_vocab(&vocab_path)?;
LoadVocabFrom(files) ==
    /\ pc = "load_vocab"
    /\ \E f \in files :
        /\ vocab_file' = f
        /\ IF f.status # "map"
           THEN \* File::open or serde_json::from_reader failed: ? returns Err
                /\ outcome' = "Err"
                /\ pc' = "exit"
                /\ UNCHANGED <<vocab, index_to_char>>
           ELSE IF \E c \in DOMAIN f.map : ~InRange(f.map[c], Cardinality(DOMAIN f.map))
           THEN \* index out of bounds
                /\ outcome' = "panic"
                /\ pc' = "exit"
                /\ UNCHANGED <<vocab, index_to_char>>
           ELSE /\ vocab' = f.map
                /\ index_to_char' \in IndexTables(f.map)
                /\ pc' = "pad_token"
                /\ UNCHANGED outcome
    /\ UNCHANGED <<argv, argVars, pad_token, model, dataVars, predVars,
                   predictions, out_file>>

\* let pad_token = *vocab.get(" ").expect("No padding token in vocabulary");
PadToken ==
    /\ pc = "pad_token"
    /\ IF " " \in DOMAIN vocab
       THEN /\ pad_token' = vocab[" "]
            /\ pc' = "load_model"
            /\ UNCHANGED outcome
       ELSE /\ outcome' = "panic"
            /\ pc' = "exit"
            /\ UNCHANGED pad_token
    /\ UNCHANGED <<argv, argVars, vocab_file, vocab, index_to_char, model,
                   dataVars, predVars, predictions, out_file>>

InitVocab ==
    /\ Blank
    /\ pc = "load_vocab"
    /\ argv = <<"predict">>
    /\ out_file = [exists |-> FALSE, lines |-> <<>>]

NextVocab == LoadVocabFrom(VocabFiles) \/ PadToken

SpecVocab == InitVocab /\ [][NextVocab]_vars

(***************************************************************************)
(* embed_strings                                                           *)
(***************************************************************************)
\* *vocab.get(&c.to_string()).unwrap_or(&pad_token)
Lookup(v, pad, c) == IF c \in DOMAIN v THEN v[c] ELSE pad

\* s.chars().rev().take(CONTEXT_LENGTH + 1)  (mutant)
RevTake_more(s) ==
    [k \in 1..Min(Len(s), CONTEXT_LENGTH + 1) |-> s[Len(s) - k + 1]]

\* s.chars().rev().take(CONTEXT_LENGTH as usize)
RevTake(s) ==
    [k \in 1..Min(Len(s), CONTEXT_LENGTH) |-> s[Len(s) - k + 1]]

\* indices.reverse() left out (mutant)
Reverse_not(q) == q

\* indices.reverse()
Reverse(q) == [k \in 1..Len(q) |-> q[Len(q) - k + 1]]

\* .filter_map(|c| vocab.get(..))  in place of  .map(.. unwrap_or(&pad_token))
\* (mutant): characters absent from the vocabulary are dropped.
Collected_drop(s, v, pad) ==
    LET t == RevTake(s)
    IN  [k \in 1..Len(SelectSeq(t, LAMBDA c : c \in DOMAIN v)) |->
            v[SelectSeq(t, LAMBDA c : c \in DOMAIN v)[k]]]

\* s.chars().rev().take(..).map(..).collect()
Collected(s, v, pad) ==
    LET t == RevTake(s)
    IN  [k \in 1..Len(t) |-> Lookup(v, pad, t[k])]

\* let padding_needed = CONTEXT_LENGTH as usize - indices.len();
\* a negative value here is the usize subtraction underflowing.
PaddingNeeded(ind) == CONTEXT_LENGTH - Len(ind)

\* The body of the loop up to  indices = [padding, indices].concat()
RowIndices(s, v, pad) ==
    LET ind == Reverse(Collected(s, v, pad))
        padding_needed == PaddingNeeded(ind)
    IN  IF padding_needed > 0
        THEN [k \in 1..padding_needed |-> pad] \o ind
        ELSE ind

Underflows(ins, v, pad) ==
    \E b \in 1..Len(ins) : PaddingNeeded(Reverse(Collected(ins[b], v, pad))) < 0

\* vec![pad_token; batch_size * CONTEXT_LENGTH]  after the copy loops
\*   encoded[i * CONTEXT_LENGTH + j] = idx   for j < min(indices.len(), CONTEXT_LENGTH)
EmbedStrings(ins, v, pad) ==
    [k \in 1..(Len(ins) * CONTEXT_LENGTH) |->
        LET b == (k - 1) \div CONTEXT_LENGTH
            j == (k - 1) % CONTEXT_LENGTH
            ind == RowIndices(ins[b + 1], v, pad)
        IN  IF j < Len(ind) THEN ind[j + 1] ELSE pad]

\* Row b (0-based) of  reshape(&[batch_size, CONTEXT_LENGTH])
TensorRow(enc, b) == [j \in 1..CONTEXT_LENGTH |-> enc[b * CONTEXT_LENGTH + j]]

Alphabet == <<"a", "b", "?", " ", "c">>

\* A line of n characters cycling through Alphabet from offset off.
Line(n, off) == [k \in 1..n |-> Alphabet[((k + off) % Len(Alphabet)) + 1]]

LineLens   == (0..ShortLen) \cup ((CONTEXT_LENGTH - 1)..MaxLineLen)
EmbedLines == {Line(n, off) : n \in LineLens, off \in {0, 3}}
EmbedVocabs ==
    {(" " :> 0) @@ ("a" :> 1) @@ ("b" :> 2), (" " :> 2) @@ ("a" :> 0) @@ ("b" :> 1)}

\* let input_tensor = embed_strings(inputs, vocab, pad_token);
Embed ==
    /\ pc = "embed"
    /\ IF Underflows(inputs, vocab, pad_token)
       THEN /\ outcome' = "panic"
            /\ pc' = "exit"
            /\ UNCHANGED encoded
       ELSE /\ encoded' = EmbedStrings(inputs, vocab, pad_token)
            /\ pc' = "embedded"
            /\ UNCHANGED outcome
    /\ UNCHANGED <<argv, argVars, vocabVars, model, dataVars, inputs, logits,
                   logits_masked, indices_vec, results, predictions, out_file>>

InitEmbed ==
    /\ pc = "embed"
    /\ outcome = "running"
    /\ argv = <<"predict">>
    /\ args = <<>>
    /\ i = 0
    /\ work_dir = DEFAULT_WORK_DIR
    /\ test_data = DEFAULT_TEST_DATA
    /\ test_output = DEFAULT_TEST_OUTPUT
    /\ time = FALSE
    /\ torchscript = FALSE
    /\ vocab \in EmbedVocabs
    /\ vocab_file = [status |-> "map", map |-> vocab]
    /\ index_to_char \in IndexTables(vocab)
    /\ pad_token = vocab[" "]
    /\ model = [status |-> "unloaded", classes |-> 0, w |-> <<>>]
    /\ inputs \in SeqsUpTo(EmbedLines, MaxBatch)
    /\ input_file = [status |-> "ok", lines |-> <<>>]
    /\ test_input = [ok |-> TRUE, lines |-> inputs]
    /\ encoded = <<>>
    /\ logits = <<>>
    /\ logits_masked = <<>>
    /\ indices_vec = <<>>
    /\ results = <<>>
    /\ predictions = <<>>
    /\ out_file = [exists |-> FALSE, lines |-> <<>>]

NextEmbed == Embed

SpecEmbed == InitEmbed /\ [][NextEmbed]_vars

(***************************************************************************)
(* main: steps 2 to 4                                                      *)
(***************************************************************************)
MainArgLists == {<<"predict", "--test_output", "out.txt", "--time">>}

MainVocabFiles ==
    { [status |-> "missing", map |-> <<>>],
      [status |-> "garbage", map |-> <<>>],
      [status |-> "map", map |-> (" " :> 0) @@ ("a" :> 1) @@ ("b" :> 2)],
      [status |-> "map", map |-> (" " :> 1) @@ ("a" :> 0) @@ ("b" :> 2) @@ ("c" :> 3)],
      [status |-> "map", map |-> ("a" :> 0) @@ ("b" :> 1)],
      [status |-> "map", map |-> (" " :> 0) @@ ("a" :> 3)] }

LoadVocab == LoadVocabFrom(MainVocabFiles)

\* -f64::INFINITY: below every score a model produces, or equal to it.
NegInf == -1

\* The scores in ascending order, and the score number k stands for.
ScoreSeq == <<NegInf>> \o [k \in 1..(MaxScore + 1) |-> k - 1]
ScoreOf(k) == ScoreSeq[(k % Len(ScoreSeq)) + 1]

\* The serialized model is opaque.  It is taken from a family of functions
\* from a context window to a row of scores, one score per output class: the
\* weight vector w of a model runs through the scores from offset off in
\* steps of step (step 0: all classes score the same), and the row for a
\* window is w rotated by the last index of the window.
ClassCounts == (TopK - 1)..MaxClasses
Models ==
    {[status |-> "loaded", classes |-> n, w |-> [c \in 1..n |-> ScoreOf(c * step + off)]] :
        n \in ClassCounts, step \in 0..(Len(ScoreSeq) - 1), off \in 0..(Len(ScoreSeq) - 1)}

\* model.forward_ts(&[input_tensor]) for one row of the input tensor
Forward(m, row) ==
    [c \in 1..m.classes |-> m.w[((c - 1 + row[CONTEXT_LENGTH]) % m.classes) + 1]]

\* let model = CModule::load(&model_path).map_err(..)?;
LoadModel ==
    /\ pc = "load_model"
    /\ \/ /\ model' = [status |-> "failed", classes |-> 0, w |-> <<>>]
          /\ outcome' = "Err"
          /\ pc' = "exit"
       \/ /\ model' \in Models
          /\ pc' = "load_data"
          /\ UNCHANGED outcome
    /\ UNCHANGED <<argv, argVars, vocabVars, dataVars, predVars, predictions,
                   out_file>>

\* A line of the file as reader.lines() yields it: Ok(text), or Err for a
\* line that is not valid UTF-8.
MainLines == {Line(2, 4), Line(MaxLineLen, 1)}
RawLines  == {[ok |-> FALSE, text |-> <<>>]} \cup {[ok |-> TRUE, text |-> l] : l \in MainLines}
InputFiles ==
    {[status |-> "missing", lines |-> <<>>]}
    \cup {[status |-> "ok", lines |-> r] : r \in SeqsUpTo(RawLines, MaxBatch)}

\* reader.lines().filter_map(Result::ok).collect()
ReadLines(raw) ==
    LET kept == SelectSeq(raw, LAMBDA r : r.ok)
    IN  [k \in 1..Len(kept) |-> kept[k].text]

\* load_test_input with the output file created while loading (mutant)
LoadTestData_create ==
    /\ pc = "load_data"
    /\ \E f \in InputFiles :
        /\ input_file' = f
        /\ test_input' = IF f.status = "ok"
                         THEN [ok |-> TRUE, lines |-> ReadLines(f.lines)]
                         ELSE [ok |-> FALSE, lines |-> <<>>]
    /\ out_file' = [exists |-> TRUE, lines |-> <<>>]
    /\ pc' = "run_prediction"
    /\ UNCHANGED <<outcome, argv, argVars, vocabVars, model, predVars,
                   predictions>>

\* let test_input = load_test_input(&args.test_data);   (no ? operator)
LoadTestData ==
    /\ pc = "load_data"
    /\ \E f \in InputFiles :
        /\ input_file' = f
        /\ test_input' = IF f.status = "ok"
                         THEN [ok |-> TRUE, lines |-> ReadLines(f.lines)]
                         ELSE [ok |-> FALSE, lines |-> <<>>]
    /\ pc' = "run_prediction"
    /\ UNCHANGED <<outcome, argv, argVars, vocabVars, model, predVars,
                   predictions, out_file>>

(***************************************************************************)
(* run_prediction                                                          *)
(***************************************************************************)
\* logits_masked.get((.., pad_token)).fill_(-f64::INFINITY)
MaskPad(lg, pad) ==
    [b \in 1..Len(lg) |->
        [c \in 1..Len(lg[b]) |-> IF c - 1 = pad THEN NegInf ELSE lg[b][c]]]

\* topk(k, -1, largest = true, sorted = true) on one row: the 0-based class
\* indices in descending score order.  The order among equal scores is left
\* to the library; it is taken to go by index, lowest first or highest first.
RECURSIVE TopKRow(_, _, _, _)
TopKRow(row, taken, k, lowFirst) ==
    IF k = 0 THEN <<>>
    ELSE LET rest == (1..Len(row)) \ taken
             best == {c \in rest : \A d \in rest : row[d] <= row[c]}
             c == IF lowFirst THEN CHOOSE x \in best : \A y \in best : x <= y
                              ELSE CHOOSE x \in best : \A y \in best : y <= x
         IN  <<c - 1>> \o TopKRow(row, taken \cup {c}, k - 1, lowFirst)

TopKSeqs(row, k) == {TopKRow(row, {}, k, lowFirst) : lowFirst \in BOOLEAN}

\* The [batch, 3] index tensor of topk, flattened row by row.
RECURSIVE TopKFlat(_, _)
TopKFlat(mat, b) ==
    IF b > Len(mat) THEN {<<>>}
    ELSE {h \o t : h \in TopKSeqs(mat[b], TopK), t \in TopKFlat(mat, b + 1)}

\* What run_prediction can see as its batch.  main passes &test_input, the
\* io::Result itself, because line 291 has no ? operator: an Ok holds the
\* lines, an Err holds none.
Batch(ti) == IF ti.ok THEN ti.lines ELSE <<>>

\* let start_idx = batch_idx * 2 (mutant)
StartIdx_two(batch_idx) == batch_idx * 2

\* let start_idx = batch_idx * 3; // Each batch has 3 predictions
StartIdx(batch_idx) == batch_idx * 3

\* The reads of one iteration of the outer loop are in range.
PredictionInRange(ivec, itc, batch_idx) ==
    \A k \in 0..(TopK - 1) :
        /\ InRange(StartIdx(batch_idx) + k, Len(ivec))
        /\ InRange(ivec[StartIdx(batch_idx) + k + 1], Len(itc))

\* for i in 0..3 { prediction.push_str(&index_to_char[indices_vec[start_idx + i]]) }
Prediction(ivec, itc, batch_idx) ==
    LET char_idx(k) == ivec[StartIdx(batch_idx) + k + 1]
    IN  itc[char_idx(0) + 1] \o itc[char_idx(1) + 1] \o itc[char_idx(2) + 1]

\* run_prediction up to the end of the post-processing loop
RunPrediction ==
    /\ pc = "run_prediction"
    /\ \/ \* the Err of load_test_input is unwrapped, or embed_strings'
          \* subtraction underflows
          /\ ~test_input.ok \/ Underflows(Batch(test_input), vocab, pad_token)
          /\ outcome' = "panic"
          /\ pc' = "exit"
          /\ UNCHANGED predVars
       \/ \* to(Device::Cuda) or forward_ts(..).expect(..) fails, the mask
          \* column is out of range, or topk has fewer than 3 classes
          /\ ~Underflows(Batch(test_input), vocab, pad_token)
          /\ inputs' = Batch(test_input)
          /\ encoded' = EmbedStrings(Batch(test_input), vocab, pad_token)
          /\ outcome' = "panic"
          /\ pc' = "exit"
          /\ UNCHANGED <<logits, logits_masked, indices_vec, results>>
       \/ /\ ~Underflows(Batch(test_input), vocab, pad_token)
          /\ InRange(pad_token, model.classes)
          /\ model.classes >= TopK
          /\ LET ins == Batch(test_input)
                 enc == EmbedStrings(ins, vocab, pad_token)
                 lg  == [b \in 1..Len(ins) |-> Forward(model, TensorRow(enc, b - 1))]
                 msk == MaskPad(lg, pad_token)
             IN  /\ inputs' = ins
                 /\ encoded' = enc
                 /\ logits' = lg
                 /\ logits_masked' = msk
                 \* to_vec1::<i64>().unwrap_or_default(): the flattened
                 \* indices, or the empty default when the conversion fails
                 /\ \E iv \in TopKFlat(msk, 1) \cup {<<>>} :
                       /\ indices_vec' = iv
                       \* for batch_idx in 0..batch_size { ... results.push(prediction) }
                       /\ IF \A b \in 0..(Len(ins) - 1) :
                                 PredictionInRange(iv, index_to_char, b)
                          THEN /\ results' = [b \in 1..Len(ins) |->
                                                 Prediction(iv, index_to_char, b - 1)]
                               /\ pc' = "rp_return"
                               /\ UNCHANGED outcome
                          ELSE /\ outcome' = "panic"
                               /\ pc' = "exit"
                               /\ UNCHANGED results
    /\ UNCHANGED <<argv, argVars, vocabVars, model, dataVars, predictions,
                   out_file>>

\* run_prediction returns results; its locals are dropped.
RunReturn ==
    /\ pc = "rp_return"
    /\ predictions' = results
    /\ inputs' = <<>>
    /\ encoded' = <<>>
    /\ logits' = <<>>
    /\ logits_masked' = <<>>
    /\ indices_vec' = <<>>
    /\ results' = <<>>
    /\ pc' = "write"
    /\ UNCHANGED <<outcome, argv, argVars, vocabVars, model, dataVars, out_file>>

(***************************************************************************)
(* write_predictions, and the end of main                                  *)
(***************************************************************************)
\* write_predictions(&predictions, &args.test_output)?; ... Ok(())
WritePredictions ==
    /\ pc = "write"
    /\ \/ \* File::create fails
          /\ outcome' = "Err"
          /\ pc' = "exit"
          /\ UNCHANGED out_file
       \/ \* File::create truncates; writeln! or flush fails after n lines
          /\ \E n \in 0..Len(predictions) :
                out_file' = [exists |-> TRUE, lines |-> SubSeq(predictions, 1, n)]
          /\ outcome' = "Err"
          /\ pc' = "exit"
       \/ \* every line is written and flushed; "Completed successfully"
          /\ out_file' = [exists |-> TRUE, lines |-> predictions]
          /\ outcome' = "Ok"
          /\ pc' = "done"
    /\ UNCHANGED <<argv, argVars, vocabVars, model, dataVars, predVars,
                   predictions>>

(***************************************************************************)
(* main                                                                    *)
(***************************************************************************)
OldFile == [exists |-> TRUE, lines |-> << <<"o", "l", "d">> >>]

Init ==
    /\ Blank
    /\ pc = "parse_args"
    /\ argv \in MainArgLists
    /\ out_file \in {[exists |-> FALSE, lines |-> <<>>], OldFile}

Next ==
    \/ ParseBegin
    \/ ParseStep
    \/ ParseReturn
    \/ LoadVocab
    \/ PadToken
    \/ LoadModel
    \/ LoadTestData
    \/ RunPrediction
    \/ RunReturn
    \/ WritePredictions

Spec == Init /\ [][Next]_vars

(***************************************************************************)
(* C1, C7, C8: embed_strings                                               *)
(***************************************************************************)
\* C1: embed_strings never underflows CONTEXT_LENGTH - indices.len(); the
\* buffer it builds has batch_size * CONTEXT_LENGTH entries, one row per
\* line, and the index vector of every line has exactly CONTEXT_LENGTH
\* entries, for empty lines and for lines longer than CONTEXT_LENGTH too.
C1_FixedWidth ==
    /\ outcome # "panic"
    /\ pc = "embedded" =>
        /\ Len(encoded) = Len(inputs) * CONTEXT_LENGTH
        /\ \A b \in 1..Len(inputs) :
            /\ PaddingNeeded(Reverse(Collected(inputs[b], vocab, pad_token))) >= 0
            /\ Len(RowIndices(inputs[b], vocab, pad_token)) = CONTEXT_LENGTH

C1_Witness ==
    /\ pc = "embedded"
    /\ \E b \in 1..Len(inputs) : Len(inputs[b]) = 0
    /\ \E b \in 1..Len(inputs) : Len(inputs[b]) > CONTEXT_LENGTH
    /\ Len(encoded) = 2 * CONTEXT_LENGTH

\* C7: the row of a line of n characters holds, with m = min(n, 32), the
\* encodings of the line's last m characters in order in its last m
\* positions, and pad_token in its first 32 - m positions.
C7_RightAligned ==
    pc = "embedded" =>
        \A b \in 1..Len(inputs) :
            LET s == inputs[b]
                n == Len(s)
                m == Min(n, CONTEXT_LENGTH)
                row == TensorRow(encoded, b - 1)
            IN  /\ \A k \in 1..m :
                     row[CONTEXT_LENGTH - m + k] =
                        (IF s[n - m + k] \in DOMAIN vocab THEN vocab[s[n - m + k]]
                                                          ELSE pad_token)
                /\ \A k \in 1..(CONTEXT_LENGTH - m) : row[k] = pad_token

C7_Witness ==
    /\ pc = "embedded"
    /\ \E b \in 1..Len(inputs) :
          /\ Len(inputs[b]) > CONTEXT_LENGTH
          /\ inputs[b][1] # inputs[b][CONTEXT_LENGTH + 1]
          /\ TensorRow(encoded, b - 1)[1] # pad_token
    /\ \E b \in 1..Len(inputs) :
          /\ Len(inputs[b]) = 2
          /\ TensorRow(encoded, b - 1)[CONTEXT_LENGTH] # pad_token

\* The position in its row of character p of a line of n characters.
RowPos(n, p) == CONTEXT_LENGTH - n + p

\* C8: every entry of the buffer is pad_token or an index of the vocabulary;
\* a character absent from the vocabulary is encoded as pad_token at its own
\* position, and every kept character that is in the vocabulary has its
\* vocabulary index at its own position.
C8_UnknownIsPad ==
    pc = "embedded" =>
        /\ \A k \in 1..Len(encoded) :
              encoded[k] = pad_token \/ \E c \in DOMAIN vocab : encoded[k] = vocab[c]
        /\ \A b \in 1..Len(inputs) :
              \A p \in 1..Len(inputs[b]) :
                  RowPos(Len(inputs[b]), p) >= 1 =>
                      LET e == encoded[(b - 1) * CONTEXT_LENGTH + RowPos(Len(inputs[b]), p)]
                          c == inputs[b][p]
                      IN  /\ c \notin DOMAIN vocab => e = pad_token
                          /\ c \in DOMAIN vocab => e = vocab[c]

C8_Witness ==
    /\ pc = "embedded"
    /\ \E b \in 1..Len(inputs) :
          /\ Len(inputs[b]) = CONTEXT_LENGTH - 1
          /\ \E p \in 2..(Len(inputs[b]) - 1) :
                /\ inputs[b][p] \notin DOMAIN vocab
                /\ inputs[b][p - 1] \in DOMAIN vocab /\ inputs[b][p - 1] # " "
                /\ encoded[(b - 1) * CONTEXT_LENGTH + p + 1] = pad_token
                /\ encoded[(b - 1) * CONTEXT_LENGTH + p] = vocab[inputs[b][p - 1]]

(***************************************************************************)
(* C5: load_vocab                                                          *)
(***************************************************************************)
\* C5: for every vocabulary file that parses as a map, load_vocab returns
\* the map and a table index_to_char as long as the map has entries, with
\* index_to_char[vocab[c]] = c for every character c, every access in range.
C5_InverseTable ==
    vocab_file.status = "map" =>
        /\ vocab = vocab_file.map
        /\ Len(index_to_char) = Cardinality(DOMAIN vocab)
        /\ \A c \in DOMAIN vocab :
              /\ InRange(vocab[c], Len(index_to_char))
              /\ index_to_char[vocab[c] + 1] = <<c>>

(***************************************************************************)
(* C2, C3: run_prediction                                                  *)
(***************************************************************************)
\* The score of 0-based class c in row b after the pad class is masked.
MaskedScore(b, c) == IF c = pad_token THEN NegInf ELSE logits[b][c + 1]

\* C2: when run_prediction has built its results, there is one per line, and
\* the result of line b is the concatenation of the characters of three
\* distinct classes c1, c2, c3 whose masked scores in row b of the score
\* matrix (the model's output for the window of line b) are in descending
\* order and are not below the score of any other class.
C2_TopThree ==
    pc = "rp_return" =>
        /\ Len(results) = Len(inputs)
        /\ \A b \in 1..Len(inputs) :
            /\ logits[b] = Forward(model, TensorRow(encoded, b - 1))
            /\ \E c1, c2, c3 \in 0..(model.classes - 1) :
                /\ c1 # c2 /\ c1 # c3 /\ c2 # c3
                /\ \A c \in {c1, c2, c3} : InRange(c, Len(index_to_char))
                /\ MaskedScore(b, c1) >= MaskedScore(b, c2)
                /\ MaskedScore(b, c2) >= MaskedScore(b, c3)
                /\ \A d \in (0..(model.classes - 1)) \ {c1, c2, c3} :
                      MaskedScore(b, d) <= MaskedScore(b, c3)
                /\ results[b] = index_to_char[c1 + 1] \o index_to_char[c2 + 1]
                                  \o index_to_char[c3 + 1]

C2_Witness ==
    /\ pc = "rp_return"
    /\ Len(inputs) = 2
    /\ logits[1] # logits[2]
    /\ results[1] # results[2]
    /\ \E c \in 1..model.classes : logits[1][c] > 0

\* C3: none of the predicted class indices is pad_token, and no prediction
\* contains the space character.
C3_PadExcluded ==
    pc = "rp_return" =>
        /\ \A k \in 1..Len(indices_vec) : indices_vec[k] # pad_token
        /\ \A b \in 1..Len(results) : \A k \in 1..Len(results[b]) : results[b][k] # " "

(***************************************************************************)
(* C4, C6, C9: main                                                        *)
(***************************************************************************)
\* The predictions the model allows for one line of text.
PredictionsFor(text) ==
    LET enc == EmbedStrings(<<text>>, vocab, pad_token)
        msk == MaskPad(<<Forward(model, TensorRow(enc, 0))>>, pad_token)
    IN  {index_to_char[t[1] + 1] \o index_to_char[t[2] + 1] \o index_to_char[t[3] + 1] :
            t \in TopKSeqs(msk[1], TopK)}

\* C4: after a successful run the output file has as many lines as the
\* input file, output line k is a prediction for input line k, and every
\* output line is three vocabulary characters.
C4_OnePerLine ==
    (pc = "done" /\ outcome = "Ok") =>
        /\ Len(out_file.lines) = Len(input_file.lines)
        /\ \A k \in 1..Len(out_file.lines) :
            /\ k <= Len(input_file.lines)
            /\ input_file.lines[k].ok
            /\ out_file.lines[k] \in PredictionsFor(input_file.lines[k].text)
            /\ \E c1, c2, c3 \in DOMAIN vocab : out_file.lines[k] = <<c1, c2, c3>>

InitialFiles == {[exists |-> FALSE, lines |-> <<>>], OldFile}

\* C6: a vocabulary file that cannot be opened or parsed, a model that cannot
\* be loaded and a test input file that cannot be opened each make main
\* return Err without creating or writing the output file, and main
\* completes successfully only when every file was opened and parsed and the
\* output file was created.
C6_ErrorsPropagated ==
    /\ vocab_file.status \in {"missing", "garbage"} =>
          outcome = "Err" /\ pc = "exit" /\ out_file \in InitialFiles
    /\ model.status = "failed" =>
          outcome = "Err" /\ pc = "exit" /\ out_file \in InitialFiles
    /\ input_file.status = "missing" =>
          outcome = "Err" /\ pc = "exit" /\ out_file \in InitialFiles
    /\ pc = "done" =>
          /\ vocab_file.status = "map"
          /\ model.status = "loaded"
          /\ input_file.status = "ok"
          /\ out_file.exists

StepOrder ==
    <<"parse_args", "parse_loop", "load_vocab", "pad_token", "load_model",
      "load_data", "run_prediction", "rp_return", "write", "done">>

StepNo(p) == CHOOSE k \in 1..Len(StepOrder) : StepOrder[k] = p

RECURSIVE ReadAsFlag(_, _)
ReadAsFlag(a, k) ==
    \/ k = 1
    \/ k > 1 /\ ReadAsFlag(a, k - 1) /\ a[k] \notin ValueFlags
    \/ k > 2 /\ ReadAsFlag(a, k - 2) /\ a[k - 1] \in ValueFlags

SetMax(S) == CHOOSE x \in S : \A y \in S : y <= x

\* The value the last effective occurrence of a value flag gives, else dflt.
LastValue(a, flag, dflt) ==
    LET K == {k \in 1..(Len(a) - 2) : ReadAsFlag(a, k) /\ a[k + 1] = flag}
    IN  IF K = {} THEN dflt ELSE a[SetMax(K) + 2]

SwitchSet(a, flag) ==
    \E k \in 1..(Len(a) - 1) : ReadAsFlag(a, k) /\ a[k + 1] = flag

ParseReturned == pc \notin {"parse_args", "parse_loop"}

C10_Settings ==
    ParseReturned =>
        /\ work_dir = LastValue(argv, "--work_dir", DEFAULT_WORK_DIR)
        /\ test_data = LastValue(argv, "--test_data", DEFAULT_TEST_DATA)
        /\ test_output = LastValue(argv, "--test_output", DEFAULT_TEST_OUTPUT)
        /\ time = SwitchSet(argv, "--time")
        /\ torchscript = SwitchSet(argv, "--torchscript")

====
